---------------------------- MODULE Spec2Model ----------------------------
(***************************************************************************)
(* Model of the company-research agent's turn loop                         *)
(* (src/agent/sample_agent/agent.py): the compiled workflow chat_node ->   *)
(* tool_node -> chat_node, the conversation state AgentState, and the      *)
(* approval check check_approval_node.                                     *)
(*                                                                         *)
(* Texts are sequences of one-character strings, so that lower(), strip()  *)
(* and the substring test of the approval check are computed, not assumed. *)
(***************************************************************************)
EXTENDS Integers, Sequences, FiniteSets, TLC

VARIABLES
    messages,            \* AgentState.messages: the transcript
    pending_tool_calls,  \* AgentState.pending_tool_calls
    awaiting_approval,   \* AgentState.awaiting_approval
    actions,             \* names of state["copilotkit"]["actions"]
    pc,                  \* the node the run executes next, or where it ended
    nextId,              \* next fresh id (message ids, tool-call ids)
    cancelled,           \* history: ids of the calls discarded by a denial
    tasks,               \* tool_node: the state of each call it has started
    tool_descriptions,   \* chat_node: the descriptions its latest run has logged
    language,            \* state.get('language', 'english'), read for the system prompt
    conversations,       \* two conversations side by side: the state of each
    request,             \* the tool call a server or tool function is serving
    reply,               \* what it has returned for it
    db_pool,             \* DatabaseServer.db_pool
    db_log               \* the queries the database has been sent

vars == <<messages, pending_tool_calls, awaiting_approval, actions, pc, nextId, cancelled,
          tasks, tool_descriptions, language, conversations, request, reply, db_pool,
          db_log>>

\* the state outside the conversation modelled by the variables above it
elsewhere == <<conversations, request, reply, db_pool, db_log>>

\* nothing runs outside this conversation
elsewhere_idle ==
    /\ conversations = <<>>
    /\ request = <<>>
    /\ reply = <<>>
    /\ db_pool = "None"
    /\ db_log = <<>>

(***************************************************************************)
(* Bounds of the model.                                                    *)
(***************************************************************************)
\* longest transcript explored
MaxMsgs == 5
\* most action requests in one model response
MaxCalls == 2

\* the limits given to a search range from -MaxLimit to MaxLimit
MaxLimit == 4
\* most requests the database server is sent
MaxRequests == 2
\* two conversations start a run while their transcripts together are no longer
MaxShared == 3

(***************************************************************************)
(* Texts.                                                                  *)
(***************************************************************************)
kw_approve ==
    <<"a","p","p","r","o","v","e">>

kw_yes ==
    <<"y","e","s">>

kw_proceed ==
    <<"p","r","o","c","e","e","d">>

kw_ok ==
    <<"o","k">>

kw_continue ==
    <<"c","o","n","t","i","n","u","e">>

kw_deny ==
    <<"d","e","n","y">>

kw_no ==
    <<"n","o">>

kw_cancel ==
    <<"c","a","n","c","e","l">>

kw_stop ==
    <<"s","t","o","p">>

executing_text ==
    <<"E","x","e","c","u","t","i","n","g"," ","a","p","p","r","o","v","e","d"," ","t","o","o",
      "l","s",".",".",".">>

cancel_text ==
    <<"T","o","o","l"," ","e","x","e","c","u","t","i","o","n"," ","c","a","n","c","e","l","l",
      "e","d"," ","a","s"," ","p","e","r"," ","y","o","u","r"," ","r","e","q","u","e","s","t",
      "."," ","H","o","w"," ","e","l","s","e"," ","c","a","n"," ","I"," ","h","e","l","p"," ",
      "y","o","u","?">>

clarification_text ==
    <<"I"," ","d","i","d","n","'","t"," ","u","n","d","e","r","s","t","a","n","d"," ","y","o",
      "u","r"," ","r","e","s","p","o","n","s","e","."," ","P","l","e","a","s","e"," ","r","e",
      "p","l","y"," ","w","i","t","h"," ","'","a","p","p","r","o","v","e","'"," ","t","o"," ",
      "p","r","o","c","e","e","d"," ","o","r"," ","'","d","e","n","y","'"," ","t","o"," ","c",
      "a","n","c","e","l",".">>

TextShowMeApple ==
    <<"S","h","o","w"," ","m","e"," ","A","p","p","l","e">>

TextOk ==
    <<" ","O","K"," ">>

TextNopeThanks ==
    <<"n","o","p","e"," ","t","h","a","n","k","s">>

TextMaybe ==
    <<"m","a","y","b","e">>

TextYesCancel ==
    <<"y","e","s",","," ","c","a","n","c","e","l">>

AnswerText ==
    <<"A","p","p","l","e"," ","I","n","c","."," ","d","e","s","i","g","n","s"," ","c","o","n",
      "s","u","m","e","r"," ","e","l","e","c","t","r","o","n","i","c","s",".">>

result_text ==
    <<"{","\"","s","o","u","r","c","e","\"",":"," ","\"","o","p","e","n","a","i","_","g","p",
      "t","4","o","\"","}">>

db_result_text ==
    <<"[","{","\"","n","a","m","e","\"",":"," ","\"","A","p","p","l","e"," ","I","n","c",".",
      "\"","}","]">>

error_text ==
    <<"{","\n"," "," ","\"","e","r","r","o","r","\"",":"," ","\"","R","e","q","u","e","s","t",
      " ","f","a","i","l","e","d",":"," ","t","i","m","e","o","u","t","\"","\n","}">>

invalid_tool_prefix ==
    <<"E","r","r","o","r",":"," ">>

invalid_tool_suffix ==
    <<" ","i","s"," ","n","o","t"," ","a"," ","v","a","l","i","d"," ","t","o","o","l">>

chars_displayCompanyInfo ==
    <<"d","i","s","p","l","a","y","C","o","m","p","a","n","y","I","n","f","o">>

chars_search_companies_db ==
    <<"s","e","a","r","c","h","_","c","o","m","p","a","n","i","e","s","_","d","b">>

chars_get_company_news ==
    <<"g","e","t","_","c","o","m","p","a","n","y","_","n","e","w","s">>

\* argument keys and values, tool names and the description templates
key_query ==
    <<"q","u","e","r","y">>

key_company_name ==
    <<"c","o","m","p","a","n","y","_","n","a","m","e">>

key_company1 ==
    <<"c","o","m","p","a","n","y","1">>

key_company2 ==
    <<"c","o","m","p","a","n","y","2">>

key_company ==
    <<"c","o","m","p","a","n","y">>

value_Apple ==
    <<"A","p","p","l","e">>

value_AppleInc ==
    <<"A","p","p","l","e"," ","I","n","c",".">>

value_Macys ==
    <<"M","a","c","y","'","s">>

chars_search_company_openai ==
    <<"s","e","a","r","c","h","_","c","o","m","p","a","n","y","_","o","p","e","n","a","i">>

chars_get_company_financials ==
    <<"g","e","t","_","c","o","m","p","a","n","y","_","f","i","n","a","n","c","i","a","l","s">>

chars_compare_companies ==
    <<"c","o","m","p","a","r","e","_","c","o","m","p","a","n","i","e","s">>

chars_get_stock_price ==
    <<"g","e","t","_","s","t","o","c","k","_","p","r","i","c","e">>

desc_search_companies_db ==
    <<"S","e","a","r","c","h"," ","d","a","t","a","b","a","s","e"," ","f","o","r"," ","c","o",
      "m","p","a","n","i","e","s"," ","m","a","t","c","h","i","n","g",":"," ","'">>

desc_search_company_openai ==
    <<"G","e","t"," ","A","I"," ","a","n","a","l","y","s","i","s"," ","f","o","r"," ","c","o",
      "m","p","a","n","y",":"," ","'">>

desc_get_company_news ==
    <<"G","e","t"," ","r","e","c","e","n","t"," ","n","e","w","s"," ","f","o","r"," ","c","o",
      "m","p","a","n","y",":"," ","'">>

desc_get_company_financials ==
    <<"G","e","t"," ","f","i","n","a","n","c","i","a","l"," ","d","a","t","a"," ","f","o","r",
      " ","c","o","m","p","a","n","y",":"," ","'">>

desc_compare_companies ==
    <<"C","o","m","p","a","r","e"," ","c","o","m","p","a","n","i","e","s",":"," ","'">>

desc_vs ==
    <<"'"," ","v","s"," ","'">>

desc_close ==
    <<"'">>

desc_execute ==
    <<"E","x","e","c","u","t","e"," ">>

desc_with_args ==
    <<" ","w","i","t","h"," ","a","r","g","s",":"," ">>

\* the catalogue of search_companies_db and the queries put to it
query_apple ==
    <<"a","p","p","l","e">>

query_aapl ==
    <<"a","a","p","l">>

\* texts of the database server (database_server.py)
text_unknown_tool ==
    <<"U","n","k","n","o","w","n"," ","t","o","o","l",":"," ">>

text_must_provide ==
    <<"E","r","r","o","r",":"," ","M","u","s","t"," ","p","r","o","v","i","d","e"," ","e","i",
      "t","h","e","r"," ","c","o","m","p","a","n","y","_","i","d"," ","o","r"," ","t","i","c",
      "k","e","r">>

sector_Technology ==
    <<"T","e","c","h","n","o","l","o","g","y">>

text_many ==
    <<"m","a","n","y">>

uri_companies ==
    <<"d","a","t","a","b","a","s","e",":","/","/","c","o","m","p","a","n","i","e","s">>

text_rows ==
    <<"[","\n"," "," ","{","\n"," "," "," "," ","\"","i","d","\"",":",
      " ","1",",","\n"," "," "," "," ","\"","n","a","m","e","\"",":"," ","\"","A",
      "p","p","l","e"," ","I","n","c",".","\"",",","\n"," "," "," "," ","\"","t",
      "i","c","k","e","r","_","s","y","m","b","o","l","\"",":"," ","\"","A","A","P","L","\"",
      "\n"," "," ","}","\n","]">>

text_row ==
    <<"{","\n"," "," ","\"","i","d","\"",":"," ","1",",","\n"," "," ",
      "\"","n","a","m","e","\"",":"," ","\"","A","p","p","l","e"," ","I","n","c",".","\"",",",
      "\n"," "," ","\"","t","i","c","k","e","r","_","s","y","m","b","o","l","\"",
      ":"," ","\"","A","A","P","L","\"","\n","}">>

text_no_rows ==
    <<"[","]">>

text_no_row ==
    <<"n","u","l","l">>

text_resource_head ==
    <<"{","\"","d","e","s","c","r","i","p","t","i","o","n","\"",":"," ","\"","C","o","m","p",
      "a","n","i","e","s"," ","d","a","t","a","b","a","s","e"," ","w","i","t","h"," ","f","i",
      "n","a","n","c","i","a","l"," ","a","n","d"," ","o","p","e","r","a","t","i","o","n","a",
      "l"," ","d","a","t","a","\"",","," ","\"","t","a","b","l","e","s","\"",":"," ","[","\"",
      "c","o","m","p","a","n","i","e","s","\"","]",","," ","\"","t","o","t","a","l","_","r",
      "e","c","o","r","d","s","\"",":"," ">>

text_resource_tail ==
    <<"}">>

name_search_companies ==
    <<"s","e","a","r","c","h","_","c","o","m","p","a","n","i","e","s">>

name_filter_companies ==
    <<"f","i","l","t","e","r","_","c","o","m","p","a","n","i","e","s">>

name_get_company_details ==
    <<"g","e","t","_","c","o","m","p","a","n","y","_","d","e","t","a","i","l","s">>

EmptyText == <<>>

\* what the user may ask
UserQueries == {TextShowMeApple}

\* what the user may reply to an approval request
UserReplies == {TextOk, TextNopeThanks, TextMaybe, TextYesCancel}

(***************************************************************************)
(* str.lower(), str.strip() and the `in` test on strings.                  *)
(***************************************************************************)
lower_char(c) ==
    CASE c = "A" -> "a" [] c = "B" -> "b" [] c = "C" -> "c" [] c = "D" -> "d"
      [] c = "E" -> "e" [] c = "F" -> "f" [] c = "G" -> "g" [] c = "H" -> "h"
      [] c = "I" -> "i" [] c = "J" -> "j" [] c = "K" -> "k" [] c = "L" -> "l"
      [] c = "M" -> "m" [] c = "N" -> "n" [] c = "O" -> "o" [] c = "P" -> "p"
      [] c = "Q" -> "q" [] c = "R" -> "r" [] c = "S" -> "s" [] c = "T" -> "t"
      [] c = "U" -> "u" [] c = "V" -> "v" [] c = "W" -> "w" [] c = "X" -> "x"
      [] c = "Y" -> "y" [] c = "Z" -> "z" [] OTHER -> c

lower(s) == [i \in 1..Len(s) |-> lower_char(s[i])]

upper_char(c) ==
    CASE c = "a" -> "A" [] c = "b" -> "B" [] c = "c" -> "C" [] c = "d" -> "D"
      [] c = "e" -> "E" [] c = "f" -> "F" [] c = "g" -> "G" [] c = "h" -> "H"
      [] c = "i" -> "I" [] c = "j" -> "J" [] c = "k" -> "K" [] c = "l" -> "L"
      [] c = "m" -> "M" [] c = "n" -> "N" [] c = "o" -> "O" [] c = "p" -> "P"
      [] c = "q" -> "Q" [] c = "r" -> "R" [] c = "s" -> "S" [] c = "t" -> "T"
      [] c = "u" -> "U" [] c = "v" -> "V" [] c = "w" -> "W" [] c = "x" -> "X"
      [] c = "y" -> "Y" [] c = "z" -> "Z" [] OTHER -> c

upper(s) == [i \in 1..Len(s) |-> upper_char(s[i])]

Whitespace == {" ", "\t", "\n", "\r"}

RECURSIVE lstrip(_)
lstrip(s) == IF s # <<>> /\ Head(s) \in Whitespace THEN lstrip(Tail(s)) ELSE s

RECURSIVE rstrip(_)
rstrip(s) ==
    IF s # <<>> /\ s[Len(s)] \in Whitespace THEN rstrip(SubSeq(s, 1, Len(s) - 1)) ELSE s

strip(s) == rstrip(lstrip(s))

\* Python's `word in text`
Contains(text, word) ==
    \E i \in 1..(Len(text) - Len(word) + 1) : SubSeq(text, i, i + Len(word) - 1) = word

(***************************************************************************)
(* The approval keywords and the decision check_approval_node takes.       *)
(***************************************************************************)
approve_words == {kw_approve, kw_yes, kw_proceed, kw_ok, kw_continue}

deny_words == {kw_deny, kw_no, kw_cancel, kw_stop}

response_content(content) == strip(lower(content))

\* the if / elif / else of check_approval_node
approval_decision(content) ==
    LET decision(user_response) ==
            IF \E word \in approve_words : Contains(user_response, word) THEN "approve"
            ELSE IF \E word \in deny_words : Contains(user_response, word) THEN "deny"
            ELSE "unclear"
    IN CHOOSE d \in {decision(user_response) :
                        user_response \in {response_content(content)}} : TRUE

(***************************************************************************)
(* Tools, action requests and messages.                                    *)
(***************************************************************************)
tools ==
    {"search_companies_db", "search_company_openai", "get_company_news",
     "get_company_financials", "compare_companies"}

\* the tools that call the research client, whose request can fail
research_tools == tools \ {"search_companies_db"}

\* the names a model response may request
RequestedNames == {"displayCompanyInfo", "search_companies_db", "get_company_news"}

\* the action sets a front end may offer (the second also offers a tool's name)
ActionSets ==
    {{}, {"displayCompanyInfo"}, {"displayCompanyInfo", "search_companies_db"}}

\* arguments are sets of <<parameter, value>> pairs
ArgsOf(name) ==
    CASE name = "search_companies_db" -> <<<<key_query, value_Apple>>>>
      [] name = "get_company_news" -> <<<<key_company_name, value_AppleInc>>>>
      [] OTHER -> <<<<key_company, value_AppleInc>>>>

NameChars(name) ==
    CASE name = "search_companies_db" -> chars_search_companies_db
      [] name = "search_company_openai" -> chars_search_company_openai
      [] name = "get_company_news" -> chars_get_company_news
      [] name = "get_company_financials" -> chars_get_company_financials
      [] name = "compare_companies" -> chars_compare_companies
      [] name = "get_stock_price" -> chars_get_stock_price
      [] OTHER -> chars_displayCompanyInfo

ToolCall(name, id) == [name |-> name, args |-> ArgsOf(name), id |-> id]

HumanMessage(id, content) ==
    [type |-> "human", id |-> id, content |-> content, tool_calls |-> <<>>,
     tool_call_id |-> 0, name |-> "", status |-> ""]

AIMessage(id, content, tool_calls) ==
    [type |-> "ai", id |-> id, content |-> content, tool_calls |-> tool_calls,
     tool_call_id |-> 0, name |-> "", status |-> ""]

ToolMessage(id, content, name, tool_call_id, status) ==
    [type |-> "tool", id |-> id, content |-> content, tool_calls |-> <<>>,
     tool_call_id |-> tool_call_id, name |-> name, status |-> status]

(***************************************************************************)
(* The descriptions chat_node builds for the requests that are no          *)
(* CopilotKit actions.  The arguments of a request are a dict, here the    *)
(* sequence of its <<key, value>> items in insertion order, keys and       *)
(* values being texts.                                                     *)
(***************************************************************************)
\* tool_args.get(key, '')
get(args, key) ==
    IF \E i \in 1..Len(args) : args[i][1] = key
    THEN args[CHOOSE i \in 1..Len(args) : args[i][1] = key][2]
    ELSE EmptyText

\* repr of a str without backslashes: double quotes when it holds a single
\* quote and no double quote, single quotes otherwise
repr_str(s) ==
    IF Contains(s, <<"'">>) /\ ~Contains(s, <<"\"">>)
    THEN <<"\"">> \o s \o <<"\"">>
    ELSE <<"'">> \o s \o <<"'">>

RECURSIVE repr_items(_)
repr_items(args) ==
    IF args = <<>> THEN <<>>
    ELSE repr_str(args[1][1]) \o <<":", " ">> \o repr_str(args[1][2])
         \o (IF Len(args) = 1 THEN <<>> ELSE <<",", " ">> \o repr_items(Tail(args)))

\* f"{tool_args}" of a dict of strings
repr_dict(args) == <<"{">> \o repr_items(args) \o <<"}">>

\* the generic description, used for every name by a chat_node without the
\* per-tool branches
generic_description(tool_call) ==
    desc_execute \o NameChars(tool_call.name) \o desc_with_args \o repr_dict(tool_call.args)

description(tool_call) ==
    CASE tool_call.name = "search_companies_db" ->
             desc_search_companies_db \o get(tool_call.args, key_query) \o desc_close
      [] tool_call.name = "search_company_openai" ->
             desc_search_company_openai \o get(tool_call.args, key_company_name) \o desc_close
      [] tool_call.name = "get_company_news" ->
             desc_get_company_news \o get(tool_call.args, key_company_name) \o desc_close
      [] tool_call.name = "get_company_financials" ->
             desc_get_company_financials \o get(tool_call.args, key_company_name)
                 \o desc_close
      [] tool_call.name = "compare_companies" ->
             desc_compare_companies \o get(tool_call.args, key_company1) \o desc_vs
                 \o get(tool_call.args, key_company2) \o desc_close
      [] OTHER -> desc_execute \o NameChars(tool_call.name) \o desc_with_args
                      \o repr_dict(tool_call.args)

describe_calls(calls) ==
    [i \in 1..Len(calls) |->
        [name |-> calls[i].name, description |-> description(calls[i]),
         args |-> calls[i].args]]

\* the name sequences of the action requests of one model response
CallNames == UNION {[1..n -> RequestedNames] : n \in 0..MaxCalls}

\* the requests of a response get the ids base+1, base+2, ...
make_calls(names, base) == [i \in 1..Len(names) |-> ToolCall(names[i], base + i)]

(***************************************************************************)
(* The reducer of AgentState.messages: a message whose id is already in    *)
(* the transcript replaces that message in place, any other is appended.   *)
(***************************************************************************)
\* a channel without the reducer: the update replaces the transcript
overwrite_messages(left, right) == right

\* the ids of the transcript are distinct; of the update's messages with one
\* id the first fixes the place and the last the content
add_messages(left, right) ==
    LET ids(s) == {s[i].id : i \in 1..Len(s)}
        last(id) ==
            right[CHOOSE j \in 1..Len(right) :
                     /\ right[j].id = id
                     /\ \A k \in (j + 1)..Len(right) : right[k].id # id]
        first(j) == \A k \in 1..(j - 1) : right[k].id # right[j].id
        merged ==
            [i \in 1..Len(left) |->
                IF left[i].id \in ids(right) THEN last(left[i].id) ELSE left[i]]
        fresh ==
            SelectSeq([j \in 1..Len(right) |-> j],
                      LAMBDA j : right[j].id \notin ids(left) /\ first(j))
    IN merged \o [n \in 1..Len(fresh) |-> last(right[fresh[n]].id)]

(***************************************************************************)
(* chat_node, step 5.1: the requests that are not CopilotKit actions.      *)
(***************************************************************************)
is_copilotkit_action(tc, acts) == \E action \in acts : action = tc.name

non_copilotkit_calls(tool_calls, acts) ==
    SelectSeq(tool_calls, LAMBDA tc : ~is_copilotkit_action(tc, acts))

(***************************************************************************)
(* Initial state: a conversation with an empty transcript.  The caller     *)
(* supplies the state's fields: the front end's actions and, for a         *)
(* conversation suspended for approval, the queue of requests awaiting it  *)
(* (requests that are no CopilotKit actions).                              *)
(***************************************************************************)
InitialQueues ==
    {<<>>,
     <<ToolCall("search_companies_db", 1)>>,
     <<ToolCall("search_companies_db", 1), ToolCall("get_company_news", 2)>>}

Init ==
    /\ messages = <<>>
    /\ actions \in ActionSets
    /\ pending_tool_calls \in InitialQueues
    /\ non_copilotkit_calls(pending_tool_calls, actions) = pending_tool_calls
    /\ awaiting_approval = (pending_tool_calls # <<>>)
    /\ pc = "__end__"
    /\ nextId = 3
    /\ cancelled = {}
    /\ tasks = <<>>
    /\ tool_descriptions = <<>>
    /\ language = "english"
    /\ elsewhere_idle

Idle == pc \in {"__end__", "__raised__"}

(***************************************************************************)
(* A run starts: the caller adds the user's message and the graph is       *)
(* entered at its entry point, chat_node.                                  *)
(***************************************************************************)
user_message ==
    /\ Idle
    /\ Len(messages) + 2 <= MaxMsgs
    /\ \E text \in UserQueries :
         messages' = add_messages(messages, <<HumanMessage(nextId, text)>>)
    /\ nextId' = nextId + 1
    /\ pc' = "chat_node"
    /\ UNCHANGED <<pending_tool_calls, awaiting_approval, actions, cancelled, tasks, tool_descriptions,
                 language, elsewhere>>

(***************************************************************************)
(* The approval check is applied to the conversation, with the human's     *)
(* reply as the last message (approval_reply) or with no new message       *)
(* (approval_resume).                                                      *)
(***************************************************************************)
\* the messages that follow the message the approval check reads, up to the
\* next model response: the check's own, the results of the approved requests
approval_room(content, pending) ==
    CASE approval_decision(content) = "approve" -> Len(pending) + 2
      [] approval_decision(content) = "deny" -> 1
      [] OTHER -> 2

approval_reply ==
    /\ Idle
    /\ \E text \in UserReplies :
         /\ Len(messages) + 1 + approval_room(text, pending_tool_calls) <= MaxMsgs
         /\ messages' = add_messages(messages, <<HumanMessage(nextId, text)>>)
    /\ nextId' = nextId + 1
    /\ pc' = "check_approval_node"
    /\ UNCHANGED <<pending_tool_calls, awaiting_approval, actions, cancelled, tasks, tool_descriptions,
                 language, elsewhere>>

approval_resume ==
    /\ Idle
    /\ IF messages = <<>> THEN TRUE
       ELSE Len(messages)
                + approval_room(messages[Len(messages)].content, pending_tool_calls)
            <= MaxMsgs
    /\ pc' = "check_approval_node"
    /\ UNCHANGED <<messages, pending_tool_calls, awaiting_approval, actions, nextId,
                   cancelled, tasks, tool_descriptions,
                   language, elsewhere>>

(***************************************************************************)
(* chat_node: one model call.  The call may raise (the exception leaves    *)
(* the node and nothing is written); otherwise the response is added to    *)
(* the transcript and the run goes to tool_node when the response holds a  *)
(* request that is no CopilotKit action, and ends otherwise.               *)
(***************************************************************************)
\* a chat_node that would go to tool_node after every response
chat_goto_tools(response, acts) == "tool_node"

\* a chat_node that would not tell CopilotKit actions from tools
chat_goto_any(response, acts) == IF response.tool_calls # <<>> THEN "tool_node" ELSE "__end__"

chat_goto(response, acts) ==
    IF response.tool_calls # <<>> /\ non_copilotkit_calls(response.tool_calls, acts) # <<>>
    THEN "tool_node"
    ELSE "__end__"

\* messages the run still appends after the response: one result per request
\* and the model's next response
results_due(response, acts) ==
    IF chat_goto(response, acts) = "tool_node" THEN Len(response.tool_calls) + 1 ELSE 0

\* the free text of a response: given with a final answer, empty beside requests
ModelContents(names) == IF names = <<>> THEN {EmptyText, AnswerText} ELSE {EmptyText}

\* a chat_node that would queue the requests that are no CopilotKit actions
pending_queued(pending, response, acts) == non_copilotkit_calls(response.tool_calls, acts)

\* the update of chat_node holds the key "messages" only
pending_after_chat(pending, response, acts) == pending

\* from the model's response to the return of chat_node
chat_response(response) ==
    /\ Len(messages) + 1 + results_due(response, actions) <= MaxMsgs
    /\ messages' = add_messages(messages, <<response>>)
    /\ pc' = chat_goto(response, actions)
    /\ nextId' = nextId + 1 + Len(response.tool_calls)
    /\ tool_descriptions' =
           describe_calls(non_copilotkit_calls(response.tool_calls, actions))
    /\ pending_tool_calls' = pending_after_chat(pending_tool_calls, response, actions)
    /\ UNCHANGED <<awaiting_approval, actions, cancelled, tasks, language, elsewhere>>

chat_node ==
    /\ pc = "chat_node"
    /\ \/ /\ pc' = "__raised__"
          /\ tool_descriptions' = <<>>
          /\ UNCHANGED <<messages, pending_tool_calls, awaiting_approval, actions, nextId,
                         cancelled, tasks,
                         language, elsewhere>>
       \/ \E names \in CallNames : \E content \in ModelContents(names) :
            chat_response(AIMessage(nextId, content, make_calls(names, nextId)))

(***************************************************************************)
(* tool_node = ToolNode(tools): answers every request of the last message, *)
(* in order, with one tool message carrying the request's id.  A name that *)
(* is not one of `tools` is answered with an error message and not run; a  *)
(* tool whose request fails returns its {"error": ...} payload.  The calls *)
(* of one message are awaited together (the tools are coroutines).         *)
(***************************************************************************)
\* tools without try / except: a failure surfaces as ToolNode's error text
tool_content_unwrapped(call, outcome) ==
    IF call.name \notin tools \/ outcome = "error"
    THEN invalid_tool_prefix \o NameChars(call.name) \o invalid_tool_suffix
    ELSE result_text

tool_content(call, outcome) ==
    IF call.name \notin tools
    THEN invalid_tool_prefix \o NameChars(call.name) \o invalid_tool_suffix
    ELSE IF outcome = "error"
         THEN error_text
    ELSE IF call.name = "search_companies_db" THEN db_result_text
    ELSE result_text

tool_status(call) == IF call.name \in tools THEN "success" ELSE "error"

\* a ToolNode that would answer the first request only
first_call_only(message) ==
    IF message.tool_calls = <<>> THEN <<>> ELSE <<Head(message.tool_calls)>>

\* the calls ToolNode answers: all requests of the message
calls_to_run(message) == message.tool_calls

\* a ToolNode that would add the results in the reverse order of the calls
reversed_tool_outputs(message, outcomes, base) ==
    [i \in 1..Len(calls_to_run(message)) |->
        LET k == Len(calls_to_run(message)) + 1 - i
            call == calls_to_run(message)[k]
        IN ToolMessage(base + i - 1, tool_content(call, outcomes[k]), call.name, call.id,
                       tool_status(call))]

tool_outputs(message, outcomes, base) ==
    [i \in 1..Len(calls_to_run(message)) |->
        LET call == calls_to_run(message)[i]
        IN ToolMessage(base + i - 1, tool_content(call, outcomes[i]), call.name, call.id,
                       tool_status(call))]

\* every tool body is wrapped in try / except and returns an error payload
Outcomes(message) ==
    {o \in [1..Len(calls_to_run(message)) -> {"ok", "error"}] :
        \A i \in DOMAIN o :
            o[i] = "error" => calls_to_run(message)[i].name \in research_tools}

\* a tool_node that would end the run
tool_goto_end == "__end__"

\* workflow.add_edge("tool_node", "chat_node")
tool_goto == "chat_node"

\* ToolNode starts the calls of the last message together ...
tool_node ==
    /\ pc = "tool_node"
    /\ messages # <<>>
    /\ messages[Len(messages)].type = "ai"
    /\ tasks' = [i \in 1..Len(calls_to_run(messages[Len(messages)])) |-> "running"]
    /\ pc' = "tool_node_gather"
    /\ UNCHANGED <<messages, pending_tool_calls, awaiting_approval, actions, nextId,
                   cancelled, tool_descriptions,
                   language, elsewhere>>

\* ... each call ends on its own, with a result or with an error payload ...
tool_call_done ==
    /\ pc = "tool_node_gather"
    /\ \E i \in 1..Len(tasks) :
         /\ tasks[i] = "running"
         /\ \E o \in Outcomes(messages[Len(messages)]) : tasks' = [tasks EXCEPT ![i] = o[i]]
    /\ UNCHANGED <<messages, pending_tool_calls, awaiting_approval, actions, pc, nextId,
                   cancelled, tool_descriptions,
                   language, elsewhere>>

\* ... and when all have ended their results are added, in the order of the calls
tool_node_return ==
    /\ pc = "tool_node_gather"
    /\ \A i \in 1..Len(tasks) : tasks[i] # "running"
    /\ messages' = add_messages(messages,
                                tool_outputs(messages[Len(messages)], tasks, nextId))
    /\ nextId' = nextId + Len(tasks)
    /\ tasks' = <<>>
    /\ pc' = tool_goto
    /\ UNCHANGED <<pending_tool_calls, awaiting_approval, actions, cancelled,
                   tool_descriptions,
                   language, elsewhere>>

(***************************************************************************)
(* check_approval_node.                                                    *)
(***************************************************************************)
HasContent(message) == "content" \in DOMAIN message

CallIds(calls) == {calls[i].id : i \in 1..Len(calls)}

\* an approval check that would drop the queue when there is no reply to read
pending_dropped(pending) == <<>>

\* update={"awaiting_approval": False} of the two early returns
pending_without_reply(pending) == pending

\* a denial that would leave the queue as it is
deny_keeps_pending(pending) == pending

\* "pending_tool_calls": [] in the update of a denial
pending_after_deny(pending) == <<>>

\* an approval that would forward the queue in reverse order
approved_reversed(pending) == [i \in 1..Len(pending) |-> pending[Len(pending) + 1 - i]]

\* tool_calls=state.get('pending_tool_calls', []) of the approved message
approved_tool_calls(pending) == pending

check_approval_node ==
    /\ pc = "check_approval_node"
    /\ IF messages = <<>> \/ ~HasContent(messages[Len(messages)])
       THEN /\ pc' = "__end__"
            /\ awaiting_approval' = FALSE
            /\ pending_tool_calls' = pending_without_reply(pending_tool_calls)
            /\ UNCHANGED <<messages, actions, nextId, cancelled, tasks, tool_descriptions,
                         language, elsewhere>>
       ELSE LET decision == approval_decision(messages[Len(messages)].content)
                tool_message == AIMessage(nextId, executing_text,
                                          approved_tool_calls(pending_tool_calls))
                cancel_message == AIMessage(nextId, cancel_text, <<>>)
                clarification_message == AIMessage(nextId, clarification_text, <<>>)
            IN CASE decision = "approve" ->
                     /\ messages' = add_messages(messages, messages \o <<tool_message>>)
                     /\ awaiting_approval' = FALSE
                     /\ pending_tool_calls' = <<>>
                     /\ pc' = "tool_node"
                     /\ nextId' = nextId + 1
                     /\ UNCHANGED <<actions, cancelled, tasks, tool_descriptions,
                                  language, elsewhere>>
                 [] decision = "deny" ->
                     /\ messages' = add_messages(messages, messages \o <<cancel_message>>)
                     /\ awaiting_approval' = FALSE
                     /\ pending_tool_calls' = pending_after_deny(pending_tool_calls)
                     /\ cancelled' = cancelled \cup CallIds(pending_tool_calls)
                     /\ pc' = "__end__"
                     /\ nextId' = nextId + 1
                     /\ UNCHANGED <<actions, tasks, tool_descriptions,
                                  language, elsewhere>>
                 [] OTHER ->
                     /\ messages' = add_messages(messages, messages \o <<clarification_message>>)
                     /\ awaiting_approval' = TRUE
                     /\ pc' = "chat_node"
                     /\ nextId' = nextId + 1
                     /\ UNCHANGED <<pending_tool_calls, actions, cancelled, tasks, tool_descriptions,
                                  language, elsewhere>>

Next ==
    \/ user_message
    \/ approval_reply
    \/ approval_resume
    \/ chat_node
    \/ tool_node
    \/ tool_call_done
    \/ tool_node_return
    \/ check_approval_node

Spec == Init /\ [][Next]_vars

(***************************************************************************)
(* The graph's runtime runs the node it has scheduled, the model call      *)
(* returns or raises, and every started tool call returns (the research    *)
(* client's requests carry a timeout).  The caller is under no obligation. *)
(***************************************************************************)
graph_step ==
    \/ chat_node
    \/ tool_node
    \/ tool_call_done
    \/ tool_node_return
    \/ check_approval_node

FairSpec == Spec /\ WF_vars(graph_step)

(***************************************************************************)
(* chat_node's descriptions over a wider range of responses: each of the   *)
(* five tools with and without its key arguments, and two names that are   *)
(* none of the five.                                                       *)
(***************************************************************************)
DescribedArgs(name) ==
    CASE name = "search_companies_db" ->
             {<<>>, <<<<key_query, value_Apple>>>>, <<<<key_query, value_Macys>>>>}
      [] name \in {"search_company_openai", "get_company_news", "get_company_financials"} ->
             {<<>>, <<<<key_company_name, value_AppleInc>>>>}
      [] name = "compare_companies" ->
             {<<>>, <<<<key_company1, value_Apple>>>>,
              <<<<key_company1, value_Apple>>, <<key_company2, value_Macys>>>>}
      [] name = "get_stock_price" ->
             {<<>>, <<<<key_company, value_Macys>>, <<key_query, value_Apple>>>>}
      [] OTHER -> {<<<<key_company, value_AppleInc>>>>}

DescribedRequests ==
    UNION {{<<name, args>> : args \in DescribedArgs(name)} :
              name \in tools \cup {"get_stock_price", "displayCompanyInfo"}}

DescribedResponses == UNION {[1..n -> DescribedRequests] : n \in 0..MaxCalls}

described_calls(requests, base) ==
    [i \in 1..Len(requests) |->
        [name |-> requests[i][1], args |-> requests[i][2], id |-> base + i]]

DescInit ==
    /\ messages = <<HumanMessage(1, TextShowMeApple)>>
    /\ actions \in ActionSets
    /\ pending_tool_calls = <<>>
    /\ awaiting_approval = FALSE
    /\ pc = "chat_node"
    /\ nextId = 2
    /\ cancelled = {}
    /\ tasks = <<>>
    /\ tool_descriptions = <<>>
    /\ language = "english"
    /\ elsewhere_idle

describe_response ==
    /\ pc = "chat_node"
    /\ \E requests \in DescribedResponses :
         chat_response(AIMessage(nextId, EmptyText, described_calls(requests, nextId)))

DescNext == describe_response

DescSpec == DescInit /\ [][DescNext]_vars

(***************************************************************************)
(* search_companies_db: the tool's own filter over its catalogue of three  *)
(* companies.  A result is the list of the companies returned, each with   *)
(* its id, name and ticker symbol.                                         *)
(***************************************************************************)
mock_results ==
    <<[id |-> 1, name |-> <<"A","p","p","l","e"," ","I","n","c",".">>, ticker_symbol |-> <<"A","A","P","L">>],
      [id |-> 2, name |-> <<"M","i","c","r","o","s","o","f","t"," ","C","o","r","p","o","r","a","t","i","o","n">>, ticker_symbol |-> <<"M","S","F","T">>],
      [id |-> 3, name |-> <<"T","e","s","l","a"," ","I","n","c",".">>, ticker_symbol |-> <<"T","S","L","A">>]>>

\* query.lower() in result["name"].lower() or query.upper() in result["ticker_symbol"]
query_matches(query, result) ==
    \/ \E q \in {lower(query)} : \E n \in {lower(result.name)} : Contains(n, q)
    \/ \E q \in {upper(query)} : Contains(result.ticker_symbol, q)

\* s[:limit]: the first limit items, all but the last -limit when limit < 0
slice_to(s, limit) ==
    IF limit >= 0
    THEN SubSeq(s, 1, IF limit < Len(s) THEN limit ELSE Len(s))
    ELSE SubSeq(s, 1, IF Len(s) + limit > 0 THEN Len(s) + limit ELSE 0)

search_companies_db(query, limit) ==
    slice_to(SelectSeq(mock_results, LAMBDA result : query_matches(query, result)), limit)

SearchQueries ==
    {EmptyText, query_apple, query_aapl, <<"T">>, <<"I","n","c">>, <<"x","y","z">>, <<"s">>, <<"a">>}

SearchLimits == (0 - MaxLimit)..MaxLimit

SearchInit ==
    /\ messages = <<>>
    /\ actions = {}
    /\ pending_tool_calls = <<>>
    /\ awaiting_approval = FALSE
    /\ pc = "search_companies_db"
    /\ nextId = 1
    /\ cancelled = {}
    /\ tasks = <<>>
    /\ tool_descriptions = <<>>
    /\ language = "english"
    /\ conversations = <<>>
    /\ \E query \in SearchQueries : \E limit \in SearchLimits :
         request = [name |-> "search_companies_db",
                    arguments |-> [query |-> query, limit |-> limit]]
    /\ reply = <<>>
    /\ db_pool = "None"
    /\ db_log = <<>>

search_companies_db_call ==
    /\ pc = "search_companies_db"
    /\ reply' = search_companies_db(request.arguments.query, request.arguments.limit)
    /\ pc' = "__end__"
    /\ UNCHANGED <<messages, pending_tool_calls, awaiting_approval, actions, nextId,
                   cancelled, tasks, tool_descriptions, language, conversations, request,
                   db_pool, db_log>>

SearchNext == search_companies_db_call

SearchSpec == SearchInit /\ [][SearchNext]_vars

(***************************************************************************)
(* The database server (database_server.py).  A Python value is a tuple    *)
(* whose first element is its type; a key missing from an argument mapping *)
(* is Absent.                                                              *)
(***************************************************************************)
Absent == <<"absent">>
PyNone == <<"None">>
PyInt(n) == <<"int", n>>
PyStr(s) == <<"str", s>>

\* Python's truth value of an argument
truthy(v) ==
    IF v[1] = "int" THEN v[2] # 0
    ELSE IF v[1] = "str" THEN v[2] # <<>>
    ELSE FALSE

default_limit == 10

\* the model class: query is a required string, limit an integer with a default
CompanySearchParams(arguments) ==
    [valid |-> arguments.query[1] = "str" /\ arguments.limit[1] \in {"absent", "int"},
     query |-> arguments.query,
     limit |-> IF arguments.limit[1] = "absent" THEN PyInt(default_limit)
               ELSE arguments.limit]

\* the model class: every filter is optional, limit an integer with a default
CompanyFilterParams(arguments) ==
    LET optional(v, type) == v[1] \in {"absent", "None", type}
        field(v) == IF v[1] = "absent" THEN PyNone ELSE v
    IN [valid |-> /\ optional(arguments.industry, "str")
                  /\ optional(arguments.sector, "str")
                  /\ optional(arguments.min_market_cap, "int")
                  /\ optional(arguments.max_market_cap, "int")
                  /\ arguments.limit[1] \in {"absent", "int"},
        industry |-> field(arguments.industry),
        sector |-> field(arguments.sector),
        min_market_cap |-> field(arguments.min_market_cap),
        max_market_cap |-> field(arguments.max_market_cap),
        limit |-> IF arguments.limit[1] = "absent" THEN PyInt(default_limit)
                  ELSE arguments.limit]

\* f"%{text}%"
like(v) == PyStr(<<"%">> \o v[2] \o <<"%">>)

\* what the database answers: it holds no company, or the one company below
DbAnswers == {"empty", "found"}

\* a row of the companies table, cut to three of its columns
company_row == mock_results[1]

fetch(answer) == IF answer = "found" THEN <<company_row>> ELSE <<>>

fetchrow(answer) == IF answer = "found" THEN <<"dict", company_row>> ELSE PyNone

fetchval(answer) == IF answer = "found" THEN 1 ELSE 0

\* each operation returns its value and the queries it sent to the database
count_companies(pool, answer) ==
    IF pool = "None" THEN [value |-> 0, queries |-> <<>>]
    ELSE [value |-> fetchval(answer),
          queries |-> <<[sql |-> "count_companies", params |-> <<>>]>>]

search_companies(pool, query, limit, answer) ==
    IF pool = "None" THEN [value |-> <<"list", <<>>>>, queries |-> <<>>]
    ELSE [value |-> <<"list", fetch(answer)>>,
          queries |-> <<[sql |-> "search_companies", params |-> <<like(query), limit>>]>>]

\* param_count left as it is
same_param(param_count) == param_count

\* param_count += 1
next_param(param_count) == param_count + 1

filter_companies(pool, industry, sector, min_market_cap, max_market_cap, limit, answer) ==
    LET add(built, given, column, operator, param) ==
            IF given
            THEN [param_count |-> next_param(built.param_count),
                  conditions |-> Append(built.conditions,
                                        [column |-> column, operator |-> operator,
                                         placeholder |-> next_param(built.param_count)]),
                  params |-> Append(built.params, param)]
            ELSE built
        b0 == [param_count |-> 0, conditions |-> <<>>, params |-> <<>>]
        b1 == add(b0, truthy(industry), "industry", "ILIKE", like(industry))
        b2 == add(b1, truthy(sector), "sector", "ILIKE", like(sector))
        b3 == add(b2, truthy(min_market_cap), "market_cap", ">=", min_market_cap)
        b4 == add(b3, truthy(max_market_cap), "market_cap", "<=", max_market_cap)
        where_clause == IF b4.conditions # <<>> THEN <<" AND ", b4.conditions>>
                        ELSE <<"1=1">>
    IN IF pool = "None" THEN [value |-> <<"list", <<>>>>, queries |-> <<>>]
       ELSE [value |-> <<"list", fetch(answer)>>,
             queries |-> <<[sql |-> "filter_companies",
                            where_clause |-> where_clause,
                            limit_placeholder |-> next_param(b4.param_count),
                            params |-> Append(b4.params, limit)]>>]

get_company_by_id(pool, company_id, answer) ==
    IF pool = "None" THEN [value |-> PyNone, queries |-> <<>>]
    ELSE [value |-> fetchrow(answer),
          queries |-> <<[sql |-> "get_company_by_id", params |-> <<company_id>>]>>]

get_company_by_ticker(pool, ticker, answer) ==
    IF pool = "None" THEN [value |-> PyNone, queries |-> <<>>]
    ELSE [value |-> fetchrow(answer),
          queries |-> <<[sql |-> "get_company_by_ticker",
                         params |-> <<PyStr(upper(ticker[2]))>>]>>]

\* json.dumps(value, indent=2) of the values the operations return
json_dumps(value) ==
    IF value[1] = "None" THEN text_no_row
    ELSE IF value[1] = "dict" THEN text_row
    ELSE IF value[2] = <<>> THEN text_no_rows
    ELSE text_rows

\* the lookup get_company_details makes: ticker first
details_lookup_ticker_first(company_id, ticker) ==
    IF truthy(ticker) THEN "ticker"
    ELSE IF truthy(company_id) THEN "company_id"
    ELSE "neither"

\* the lookup get_company_details makes
details_lookup(company_id, ticker) ==
    IF truthy(company_id) THEN "company_id"
    ELSE IF truthy(ticker) THEN "ticker"
    ELSE "neither"

\* what the handler of a tool call returns or raises, and the queries it sent
tool_result(pool, name, arguments, answer) ==
    LET text(content, queries) == [kind |-> "text", text |-> content, queries |-> queries]
        raised(error) == [kind |-> "raised", text |-> error, queries |-> <<>>]
        returned(result) == text(json_dumps(result.value), result.queries)
    IN IF name = name_search_companies
       THEN LET params == CompanySearchParams(arguments)
            IN IF ~params.valid THEN raised("ValidationError")
               ELSE returned(search_companies(pool, params.query, params.limit, answer))
       ELSE IF name = name_filter_companies
       THEN LET params == CompanyFilterParams(arguments)
            IN IF ~params.valid THEN raised("ValidationError")
               ELSE returned(filter_companies(pool, params.industry, params.sector,
                                              params.min_market_cap, params.max_market_cap,
                                              params.limit, answer))
       ELSE IF name = name_get_company_details
       THEN LET company_id == arguments.company_id
                ticker == arguments.ticker
                lookup == details_lookup(company_id, ticker)
            IN IF lookup = "company_id"
               THEN returned(get_company_by_id(pool, company_id, answer))
               ELSE IF lookup = "ticker"
               THEN returned(get_company_by_ticker(pool, ticker, answer))
               ELSE text(text_must_provide, <<>>)
       ELSE text(text_unknown_tool \o name, <<>>)

\* str(n) of a count
count_text(n) == IF n = 0 THEN <<"0">> ELSE <<"1">>

\* what the handler of a resource read returns or raises, and the queries it sent
resource_result(pool, uri, answer) ==
    IF uri = uri_companies
    THEN LET total_records == count_companies(pool, answer)
         IN [kind |-> "text",
             text |-> text_resource_head \o count_text(total_records.value)
                          \o text_resource_tail,
             queries |-> total_records.queries]
    ELSE [kind |-> "raised", text |-> "ValueError", queries |-> <<>>]

\* the argument mappings the server is sent
SearchArguments ==
    [query : {Absent, PyStr(query_apple)},
     limit : {Absent, PyInt(3), PyStr(text_many)}]

FilterArguments ==
    [industry : {Absent, PyStr(<<>>), PyStr(<<"S","o","f","t","w","a","r","e">>)},
     sector : {Absent, PyNone, PyStr(sector_Technology)},
     min_market_cap : {Absent, PyInt(0), PyInt(5), PyStr(text_many)},
     max_market_cap : {Absent, PyInt(9)},
     limit : {Absent, PyInt(3)}]

DetailsArguments ==
    [company_id : {Absent, PyInt(0), PyInt(7)},
     ticker : {Absent, PyStr(<<>>), PyStr(query_aapl)}]

DbRequests ==
    {[method |-> "call_tool", name |-> name_search_companies, arguments |-> a] :
        a \in SearchArguments}
    \cup {[method |-> "call_tool", name |-> name_filter_companies, arguments |-> a] :
        a \in FilterArguments}
    \cup {[method |-> "call_tool", name |-> n, arguments |-> a] :
        n \in {name_get_company_details, <<"d","e","l","e","t","e","_","c","o","m","p","a","n","y">>}, a \in DetailsArguments}
    \cup {[method |-> "read_resource", name |-> uri, arguments |-> Absent] :
        uri \in {uri_companies, <<"d","a","t","a","b","a","s","e",":","/","/","u","s","e","r","s">>}}

\* the server as constructed: handlers set up, no connection pool
DbInit ==
    /\ messages = <<>>
    /\ actions = {}
    /\ pending_tool_calls = <<>>
    /\ awaiting_approval = FALSE
    /\ pc = "idle"
    /\ nextId = 1
    /\ cancelled = {}
    /\ tasks = <<>>
    /\ tool_descriptions = <<>>
    /\ language = "english"
    /\ conversations = <<>>
    /\ request = <<>>
    /\ reply = <<>>
    /\ db_pool = "None"
    /\ db_log = <<>>

\* the pool is created, or creating it fails and the error ends the server
initialize_database ==
    /\ pc = "idle"
    /\ db_pool = "None"
    /\ \/ db_pool' = "pool" /\ pc' = pc
       \/ db_pool' = db_pool /\ pc' = "__raised__"
    /\ UNCHANGED <<messages, pending_tool_calls, awaiting_approval, actions, nextId,
                   cancelled, tasks, tool_descriptions, language, conversations, request,
                   reply, db_log>>

\* a request reaches a handler; the handlers are set up at construction, so one can
\* be called before a pool exists
db_request ==
    /\ pc = "idle"
    /\ nextId <= MaxRequests
    /\ \E r \in DbRequests :
         /\ request' = r
         /\ pc' = r.method
    /\ nextId' = nextId + 1
    /\ reply' = <<>>
    /\ UNCHANGED <<messages, pending_tool_calls, awaiting_approval, actions, cancelled,
                   tasks, tool_descriptions, language, conversations, db_pool, db_log>>

call_tool ==
    /\ pc = "call_tool"
    /\ \E answer \in DbAnswers :
         LET result == tool_result(db_pool, request.name, request.arguments, answer)
         IN /\ reply' = [kind |-> result.kind, text |-> result.text]
            /\ db_log' = db_log \o result.queries
    /\ pc' = "idle"
    /\ UNCHANGED <<messages, pending_tool_calls, awaiting_approval, actions, nextId,
                   cancelled, tasks, tool_descriptions, language, conversations, request,
                   db_pool>>

read_resource ==
    /\ pc = "read_resource"
    /\ \E answer \in DbAnswers :
         LET result == resource_result(db_pool, request.name, answer)
         IN /\ reply' = [kind |-> result.kind, text |-> result.text]
            /\ db_log' = db_log \o result.queries
    /\ pc' = "idle"
    /\ UNCHANGED <<messages, pending_tool_calls, awaiting_approval, actions, nextId,
                   cancelled, tasks, tool_descriptions, language, conversations, request,
                   db_pool>>

DbNext == initialize_database \/ db_request \/ call_tool \/ read_resource

DbSpec == DbInit /\ [][DbNext]_vars

(***************************************************************************)
(* Two conversations on the one compiled graph.  The checkpointer keeps    *)
(* the state of each conversation under its thread id; the variables of    *)
(* the conversation hold the state of the one whose step runs next, and    *)
(* between two steps the event loop may turn to the other conversation.    *)
(***************************************************************************)
Threads == {"thread-1", "thread-2"}

\* the checkpoint without the queue of requests
checkpoint_without_queue ==
    [messages |-> messages, pending_tool_calls |-> <<>>,
     awaiting_approval |-> awaiting_approval, actions |-> actions, pc |-> pc,
     nextId |-> nextId, cancelled |-> cancelled, tasks |-> tasks,
     tool_descriptions |-> tool_descriptions, language |-> language]

\* the state of the running conversation, as it is kept under its thread id
checkpoint ==
    [messages |-> messages, pending_tool_calls |-> pending_tool_calls,
     awaiting_approval |-> awaiting_approval, actions |-> actions, pc |-> pc,
     nextId |-> nextId, cancelled |-> cancelled, tasks |-> tasks,
     tool_descriptions |-> tool_descriptions, language |-> language]

\* a conversation that has not run yet
start(queue, offered) ==
    [messages |-> <<>>, pending_tool_calls |-> queue,
     awaiting_approval |-> (queue # <<>>), actions |-> offered, pc |-> "__end__",
     nextId |-> 3, cancelled |-> {}, tasks |-> <<>>, tool_descriptions |-> <<>>,
     language |-> "english"]

\* the states two conversations start in: the same actions offered, any queue
Starts ==
    {start(queue, {"displayCompanyInfo"}) : queue \in InitialQueues}

TwoInit ==
    /\ \E mine \in Starts : \E other \in Starts :
         /\ messages = mine.messages
         /\ pending_tool_calls = mine.pending_tool_calls
         /\ awaiting_approval = mine.awaiting_approval
         /\ actions = mine.actions
         /\ pc = mine.pc
         /\ nextId = mine.nextId
         /\ cancelled = mine.cancelled
         /\ tasks = mine.tasks
         /\ tool_descriptions = mine.tool_descriptions
         /\ language = mine.language
         /\ conversations = [thread_id |-> "thread-1",
                             checkpoints |-> [t \in Threads |-> other]]
    /\ request = <<>>
    /\ reply = <<>>
    /\ db_pool = "None"
    /\ db_log = <<>>

\* the event loop turns to the other conversation: the state of the one that ran is
\* kept under its thread id, and the state kept for the other is taken up
switch ==
    /\ \E t \in Threads \ {conversations.thread_id} :
         LET kept == conversations.checkpoints[t]
         IN /\ conversations' =
                  [thread_id |-> t,
                   checkpoints |-> [conversations.checkpoints
                                      EXCEPT ![conversations.thread_id] = checkpoint]]
            /\ messages' = kept.messages
            /\ pending_tool_calls' = kept.pending_tool_calls
            /\ awaiting_approval' = kept.awaiting_approval
            /\ actions' = kept.actions
            /\ pc' = kept.pc
            /\ nextId' = kept.nextId
            /\ cancelled' = kept.cancelled
            /\ tasks' = kept.tasks
            /\ tool_descriptions' = kept.tool_descriptions
            /\ language' = kept.language
    /\ UNCHANGED <<request, reply, db_pool, db_log>>

\* the runs of the two conversations explored together: the transcripts together
\* hold no more than MaxShared messages, none asks for more than one tool call
two_room ==
    /\ \A t \in Threads \ {conversations.thread_id} :
          Len(messages) + Len(conversations.checkpoints[t].messages) <= MaxShared
    /\ \A i \in 1..Len(messages) : Len(messages[i].tool_calls) <= 1

TwoNext ==
    \/ user_message /\ two_room'
    \/ approval_reply /\ two_room'
    \/ approval_resume /\ two_room'
    \/ chat_node /\ two_room'
    \/ tool_node /\ two_room'
    \/ tool_call_done /\ two_room'
    \/ tool_node_return /\ two_room'
    \/ check_approval_node /\ two_room'
    \/ switch

TwoSpec == TwoInit /\ [][TwoNext]_vars

(***************************************************************************)
(* Vocabulary of the properties.                                           *)
(***************************************************************************)
IsPrefix(s, t) == Len(s) <= Len(t) /\ SubSeq(t, 1, Len(s)) = s

LastMessage(msgs) == msgs[Len(msgs)]

\* the action requests in the transcript
Requests ==
    UNION {{messages[i].tool_calls[k] : k \in 1..Len(messages[i].tool_calls)} :
              i \in 1..Len(messages)}

PresentationRequests == {c \in Requests : c.name \in actions}

ExecutionRequests == {c \in Requests : c.name \notin actions}

\* the positions of the tool messages answering the request with this id
ResultsFor(id) ==
    {j \in 1..Len(messages) : messages[j].type = "tool" /\ messages[j].tool_call_id = id}

\* the approval check reads a reply
ApprovalStep == pc = "check_approval_node" /\ messages # <<>>

\* the approval check reads the reply to an outstanding approval request
PendingApprovalStep == ApprovalStep /\ awaiting_approval /\ pending_tool_calls # <<>>

\* the approval check reads a reply it takes as a denial
DenyStep == ApprovalStep /\ approval_decision(LastMessage(messages).content) = "deny"

\* the approval check reads a reply it takes as an approval
ApproveStep == ApprovalStep /\ approval_decision(LastMessage(messages).content) = "approve"

\* chat_node returns with the model's response
ChatStep == pc = "chat_node" /\ Len(messages') = Len(messages) + 1

\* tool_node returns with the results of its calls
ToolReturnStep == pc = "tool_node_gather" /\ pc' # "tool_node_gather"

\* the messages a step adds
Added == SubSeq(messages', Len(messages) + 1, Len(messages'))

error_prefix ==
    <<"{","\n"," "," ","\"","e","r","r","o","r","\"",":"," ","\"">>

error_suffix ==
    <<"\"","\n","}">>

\* a JSON object with the one key "error", as json.dumps(..., indent=2) writes it
IsErrorPayload(content) ==
    /\ Len(content) >= Len(error_prefix) + Len(error_suffix)
    /\ SubSeq(content, 1, Len(error_prefix)) = error_prefix
    /\ SubSeq(content, Len(content) - Len(error_suffix) + 1, Len(content)) = error_suffix

\* the started calls that are suspended on a request to the research client
InFlight ==
    {i \in 1..Len(tasks) :
        /\ tasks[i] = "running"
        /\ LastMessage(messages).tool_calls[i].name \in research_tools}

\* a node of the graph is scheduled or running
Running == pc \in {"chat_node", "tool_node", "tool_node_gather", "check_approval_node"}

\* the key arguments of the five tools' templates, and the templates' openings
key_arguments(name) ==
    CASE name = "search_companies_db" -> <<key_query>>
      [] name = "compare_companies" -> <<key_company1, key_company2>>
      [] OTHER -> <<key_company_name>>

template_opening(name) ==
    CASE name = "search_companies_db" -> desc_search_companies_db
      [] name = "search_company_openai" -> desc_search_company_openai
      [] name = "get_company_news" -> desc_get_company_news
      [] name = "get_company_financials" -> desc_get_company_financials
      [] OTHER -> desc_compare_companies

\* the value of a key argument, the empty string when the key is missing
argument_or_empty(args, key) ==
    LET found == SelectSeq(args, LAMBDA item : item[1] = key)
    IN IF found = <<>> THEN <<>> ELSE found[1][2]

\* the description of a request, the generic form joining name and arguments
\* with the given words
rendered(call, words) ==
    IF call.name \in tools
    THEN LET keys == key_arguments(call.name)
         IN template_opening(call.name) \o argument_or_empty(call.args, keys[1])
                \o (IF Len(keys) = 2
                    THEN desc_vs \o argument_or_empty(call.args, keys[2])
                    ELSE <<>>)
                \o desc_close
    ELSE desc_execute \o NameChars(call.name) \o words \o repr_dict(call.args)

\* the words between name and arguments in the specification's generic form
claimed_with_arguments ==
    <<" ","w","i","t","h"," ","a","r","g","u","m","e","n","t","s"," ">>

\* chat_node has returned descriptions of the execution requests of the last
\* response, one each, in order, name and arguments kept, so worded
DescribedWith(words) ==
    (pc # "chat_node" /\ LastMessage(messages).type = "ai") =>
        LET calls == non_copilotkit_calls(LastMessage(messages).tool_calls, actions)
        IN /\ Len(tool_descriptions) = Len(calls)
           /\ \A k \in 1..Len(calls) :
                /\ tool_descriptions[k].name = calls[k].name
                /\ tool_descriptions[k].args = calls[k].args
                /\ tool_descriptions[k].description = rendered(calls[k], words)

\* the classification the specification gives: both or neither is unrecognized
HasApproveWord(content) == \E word \in approve_words : Contains(response_content(content), word)

HasDenyWord(content) == \E word \in deny_words : Contains(response_content(content), word)

claimed_decision(content) ==
    IF HasApproveWord(content) /\ ~HasDenyWord(content) THEN "approve"
    ELSE IF HasDenyWord(content) /\ ~HasApproveWord(content) THEN "deny"
    ELSE "unclear"

(***************************************************************************)
(* C1: no execution action is executed unless an approve decision for it   *)
(* was received after the model requested it: whenever a run hands a       *)
(* message holding an execution request to tool_node, the step that hands  *)
(* it over is the approval check.                                          *)
(***************************************************************************)
C1_ExecutionOnlyAfterApproval ==
    [][(pc' = "tool_node"
          /\ non_copilotkit_calls(LastMessage(messages').tool_calls, actions) # <<>>)
        => (ApprovalStep /\ approval_decision(LastMessage(messages).content) = "approve")]_vars

(***************************************************************************)
(* C2: in every reachable state the pending queue is non-empty if and only *)
(* if awaiting_approval is true.                                           *)
(***************************************************************************)
C2_QueueIffAwaiting == (pending_tool_calls # <<>>) <=> awaiting_approval

(***************************************************************************)
(* C3: no execution request is ever answered twice, and when the turn has  *)
(* ended (DONE) every execution request in the transcript that was not     *)
(* cancelled by a denial is answered by exactly one tool message carrying  *)
(* its id.                                                                 *)
(***************************************************************************)
C3_ExactlyOneResult ==
    /\ \A c \in ExecutionRequests : Cardinality(ResultsFor(c.id)) <= 1
    /\ pc = "__end__" =>
         \A c \in ExecutionRequests :
             c.id \notin cancelled => Cardinality(ResultsFor(c.id)) = 1

\* a turn that requested two execution actions at once has ended
C3_Witness ==
    /\ pc = "__end__"
    /\ \E i \in 1..Len(messages) :
         /\ Len(messages[i].tool_calls) >= 2
         /\ \A k \in 1..Len(messages[i].tool_calls) :
              /\ messages[i].tool_calls[k].name \notin actions
              /\ Cardinality(ResultsFor(messages[i].tool_calls[k].id)) = 1

(***************************************************************************)
(* C4: the transcript is append-only: in every step the transcript before  *)
(* the step is a prefix of the transcript after it.                        *)
(***************************************************************************)
C4_AppendOnly == [][IsPrefix(messages, messages')]_vars

\* a transcript grown by a reply, the approved requests, a tool result and the
\* model's final answer
C4_Witness ==
    /\ \E i \in 1..Len(messages) : messages[i].type = "tool"
    /\ \E i \in 1..Len(messages) : messages[i].type = "human"
    /\ \E i \in 1..Len(messages) :
         messages[i].type = "ai" /\ messages[i].content = executing_text
    /\ \E i \in 1..Len(messages) :
         messages[i].type = "ai" /\ messages[i].content = AnswerText

(***************************************************************************)
(* C5: when one model turn requests a presentation action and an           *)
(* execution action, only the execution action is handed to tool_node, and *)
(* no tool message ever answers a presentation request.                    *)
(***************************************************************************)
C5_PresentationNotExecuted ==
    /\ pc = "tool_node" =>
         \A k \in 1..Len(calls_to_run(LastMessage(messages))) :
             calls_to_run(LastMessage(messages))[k].name \notin actions
    /\ \A c \in PresentationRequests : ResultsFor(c.id) = {}

(***************************************************************************)
(* C6: a request is classified as execution iff its name is no known       *)
(* presentation name, and a request whose name is both a presentation name *)
(* and a tool name is never run as a tool.                                 *)
(***************************************************************************)
C6_ClassificationDecidesExecution ==
    /\ \A i \in 1..Len(messages) :
         LET calls == messages[i].tool_calls
             execution == non_copilotkit_calls(calls, actions)
         IN \A k \in 1..Len(calls) :
               (\E e \in 1..Len(execution) : execution[e] = calls[k])
                   <=> calls[k].name \notin actions
    /\ \A c \in PresentationRequests :
         c.name \in tools =>
            \A j \in ResultsFor(c.id) : messages[j].status # "success"

(***************************************************************************)
(* C7: a reply is an approval iff it holds an approve keyword and no deny  *)
(* keyword, a denial iff it holds a deny keyword and no approve keyword,   *)
(* and unrecognized otherwise: the approval check answers each reply with  *)
(* the message of that decision.                                           *)
(***************************************************************************)
C7_DecisionAsSpecified ==
    [][PendingApprovalStep =>
          LET claimed == claimed_decision(LastMessage(messages).content)
          IN  /\ Len(messages') = Len(messages) + 1
              /\ claimed = "approve" => LastMessage(messages').content = executing_text
              /\ claimed = "deny" => LastMessage(messages').content = cancel_text
              /\ claimed = "unclear" => LastMessage(messages').content = clarification_text]_vars

(***************************************************************************)
(* C8: a denial appends the cancellation message, empties the pending      *)
(* queue and clears awaiting_approval in the same step and ends the turn;  *)
(* no tool message ever answers a request discarded by a denial.           *)
(***************************************************************************)
C8_DenialCancels ==
    [][/\ DenyStep =>
            /\ Len(messages') = Len(messages) + 1
            /\ IsPrefix(messages, messages')
            /\ LastMessage(messages').type = "ai"
            /\ LastMessage(messages').content = cancel_text
            /\ LastMessage(messages').tool_calls = <<>>
            /\ pending_tool_calls' = <<>>
            /\ awaiting_approval' = FALSE
            /\ pc' = "__end__"
            /\ CallIds(pending_tool_calls) \subseteq cancelled'
       /\ \A j \in 1..Len(messages') :
            messages'[j].type = "tool" => messages'[j].tool_call_id \notin cancelled'
       /\ \A k \in 1..Len(pending_tool_calls') :
            pending_tool_calls'[k].id \notin cancelled']_vars

\* a queue of two requests was denied, and a later approval ran nothing
C8_Witness ==
    /\ Cardinality(cancelled) = 2
    /\ \E i \in 1..Len(messages) : messages[i].content = cancel_text
    /\ \E i \in 1..Len(messages) : messages[i].content = executing_text
    /\ pc = "chat_node"

(***************************************************************************)
(* C9: an unrecognized reply (keywords of both sets, or of neither)        *)
(* appends the clarification message and leaves the pending queue as it    *)
(* was, with awaiting_approval true.                                       *)
(***************************************************************************)
C9_UnrecognizedKeepsQueue ==
    [][(PendingApprovalStep /\ claimed_decision(LastMessage(messages).content) = "unclear") =>
          /\ Len(messages') = Len(messages) + 1
          /\ LastMessage(messages').content = clarification_text
          /\ pending_tool_calls' = pending_tool_calls
          /\ awaiting_approval' = TRUE]_vars

(***************************************************************************)
(* C10: after an unrecognized reply the run stays suspended for approval:  *)
(* it goes neither to the model call nor to the tool execution.            *)
(***************************************************************************)
C10_UnrecognizedStaysPending ==
    [][(PendingApprovalStep /\ approval_decision(LastMessage(messages).content) = "unclear") =>
          pc' \notin {"chat_node", "tool_node"}]_vars

(***************************************************************************)
(* C11: an approval hands the pending queue to tool_node unchanged (same   *)
(* requests, order, ids and arguments), clears the queue and               *)
(* awaiting_approval in the same step; tool_node then answers every        *)
(* approved request with a tool message and control returns to chat_node.  *)
(***************************************************************************)
C11_ApprovalForwardsQueue ==
    [][/\ ApproveStep =>
            /\ Len(messages') = Len(messages) + 1
            /\ IsPrefix(messages, messages')
            /\ LastMessage(messages').type = "ai"
            /\ LastMessage(messages').tool_calls = pending_tool_calls
            /\ pending_tool_calls' = <<>>
            /\ awaiting_approval' = FALSE
            /\ pc' = "tool_node"
       /\ (ToolReturnStep /\ LastMessage(messages).content = executing_text) =>
            /\ Len(Added) = Len(LastMessage(messages).tool_calls)
            /\ \A k \in 1..Len(Added) :
                 /\ Added[k].type = "tool"
                 /\ Added[k].tool_call_id = LastMessage(messages).tool_calls[k].id
            /\ pc' = "chat_node"]_vars

\* a queue of two requests was approved and both were answered
C11_Witness ==
    /\ pc = "chat_node"
    /\ Len(messages) >= 3
    /\ messages[Len(messages) - 2].content = executing_text
    /\ Len(messages[Len(messages) - 2].tool_calls) = 2
    /\ messages[Len(messages) - 1].tool_call_id = 1
    /\ messages[Len(messages)].tool_call_id = 2

(***************************************************************************)
(* C12: a model response with no action requests is appended and ends the  *)
(* turn (DONE) in the same step: no approval step, no tool execution,      *)
(* whatever tool rounds came before.                                       *)
(***************************************************************************)
C12_NoRequestsEndsTurn ==
    [][(ChatStep /\ LastMessage(messages').tool_calls = <<>>) =>
          /\ IsPrefix(messages, messages')
          /\ LastMessage(messages').type = "ai"
          /\ pc' = "__end__"
          /\ UNCHANGED <<pending_tool_calls, awaiting_approval, tasks>>]_vars

\* a final answer after a tool round
C12_Witness ==
    /\ pc = "__end__"
    /\ Len(messages) >= 2
    /\ LastMessage(messages).type = "ai"
    /\ LastMessage(messages).content = AnswerText
    /\ messages[Len(messages) - 1].type = "tool"

(***************************************************************************)
(* C13: a model response with execution requests suspends the run for      *)
(* approval: the pending queue becomes those requests in request order,    *)
(* awaiting_approval becomes true and the run yields to the caller.        *)
(***************************************************************************)
C13_ExecutionRequestsSuspend ==
    [][(ChatStep /\ non_copilotkit_calls(LastMessage(messages').tool_calls, actions) # <<>>) =>
          /\ pending_tool_calls' =
                 non_copilotkit_calls(LastMessage(messages').tool_calls, actions)
          /\ awaiting_approval' = TRUE
          /\ pc' = "__end__"]_vars

(***************************************************************************)
(* C14: every CHAT step, a failing model call included, appends an         *)
(* assistant message to the unchanged earlier transcript; after a failure  *)
(* the turn has ended in DONE.                                             *)
(***************************************************************************)
C14_GatewayFailureIsAMessage ==
    [][pc = "chat_node" =>
          /\ Len(messages') = Len(messages) + 1
          /\ IsPrefix(messages, messages')
          /\ LastMessage(messages').type = "ai"
          /\ pc' \in {"tool_node", "__end__"}]_vars

(***************************************************************************)
(* C15: a failure inside a tool is no fault: the call is answered with a   *)
(* tool message whose content is the tool's {"error": ...} payload, and    *)
(* the run goes on to the next CHAT step.                                  *)
(***************************************************************************)
C15_ToolFailureIsPayload ==
    [][ToolReturnStep =>
          /\ Len(Added) = Len(tasks)
          /\ \A k \in 1..Len(tasks) :
               tasks[k] = "error" =>
                   /\ Added[k].type = "tool"
                   /\ Added[k].tool_call_id = LastMessage(messages).tool_calls[k].id
                   /\ IsErrorPayload(Added[k].content)
                   /\ Added[k].status = "success"
          /\ pc' = "chat_node"]_vars

\* both requests of one response failed and the model is called again
C15_Witness ==
    /\ pc = "chat_node"
    /\ Len(messages) >= 2
    /\ messages[Len(messages) - 1].type = "tool"
    /\ messages[Len(messages) - 1].content = error_text
    /\ LastMessage(messages).type = "tool"
    /\ LastMessage(messages).content = error_text

(***************************************************************************)
(* C16: tool_node adds tool messages only, those answering the execution   *)
(* requests of the assistant message come in the order of the requests,    *)
(* each with the id of its request, and the next node is chat_node.        *)
(***************************************************************************)
C16_ResultsInRequestOrder ==
    [][ToolReturnStep =>
          LET execution ==
                  non_copilotkit_calls(LastMessage(messages).tool_calls, actions)
              answers ==
                  SelectSeq(Added,
                            LAMBDA m : \E e \in 1..Len(execution) :
                                          execution[e].id = m.tool_call_id)
          IN  /\ IsPrefix(messages, messages')
              /\ \A k \in 1..Len(Added) : Added[k].type = "tool"
              /\ Len(answers) = Len(execution)
              /\ \A e \in 1..Len(execution) : answers[e].tool_call_id = execution[e].id
              /\ pc' = "chat_node"]_vars

\* two execution requests of one model response were answered
C16_Witness ==
    /\ pc = "chat_node"
    /\ Len(messages) >= 3
    /\ messages[Len(messages) - 2].type = "ai"
    /\ messages[Len(messages) - 2].content = EmptyText
    /\ Len(non_copilotkit_calls(messages[Len(messages) - 2].tool_calls, actions)) = 2
    /\ messages[Len(messages) - 1].name = "get_company_news"
    /\ LastMessage(messages).name = "search_companies_db"

(***************************************************************************)
(* C17: within a conversation at most one tool execution is in flight at   *)
(* any time, also when one assistant message carries several execution     *)
(* requests.                                                               *)
(***************************************************************************)
C17_OneExecutionAtATime == Cardinality(InFlight) <= 1

(***************************************************************************)
(* C18: every turn reaches DONE, short of a model call that fails and so   *)
(* returns no response; until then CHAT and EXECUTE alternate, each CHAT   *)
(* step adding the one response of its one model call.                     *)
(***************************************************************************)
C18_TurnsReachDone ==
    /\ [][/\ pc = "chat_node" =>
                /\ pc' \in {"tool_node", "__end__", "__raised__"}
                /\ \/ pc' = "__raised__"
                   \/ /\ Len(messages') = Len(messages) + 1
                      /\ LastMessage(messages').type = "ai"
          /\ pc = "tool_node" => (pc' = "tool_node_gather" /\ messages' = messages)
          /\ pc = "tool_node_gather" =>
                \/ pc' = "tool_node_gather" /\ messages' = messages
                \/ pc' = "chat_node"]_vars
    /\ Running ~> (pc = "__end__" \/ pc = "__raised__")

\* a turn of one CHAT, one EXECUTE and one more CHAT has reached DONE
C18_Witness ==
    /\ pc = "__end__"
    /\ Len(messages) = 4
    /\ messages[1].type = "human"
    /\ messages[2].type = "ai" /\ messages[2].tool_calls # <<>>
    /\ messages[3].type = "tool"
    /\ messages[4].type = "ai" /\ messages[4].tool_calls = <<>>

(***************************************************************************)
(* C19: chat_node renders one description per execution request of the     *)
(* response, in request order, keeping name and arguments; the description *)
(* is the tool's template filled with its key arguments (the empty string  *)
(* for a missing one) for the five tools, and for every other name the     *)
(* generic form.  As stated: 'Execute <name> with arguments <args>'.       *)
(***************************************************************************)
C19_DescriptionsAsStated == DescribedWith(claimed_with_arguments)

\* C19, amended: the generic form is 'Execute <name> with args: <args>'
C19_DescriptionsAsCoded == DescribedWith(desc_with_args)

\* a tool without its key argument and a name that is none of the five tools
C19_Witness ==
    /\ pc = "tool_node"
    /\ Len(tool_descriptions) = 2
    /\ tool_descriptions[1].name = "get_company_news"
    /\ tool_descriptions[1].args = <<>>
    /\ tool_descriptions[2].name = "get_stock_price"
    /\ tool_descriptions[2].args # <<>>

(***************************************************************************)
(* C24: a response whose requests are all CopilotKit actions is appended   *)
(* once and ends the turn: tool_node is not entered, no approval is        *)
(* requested, and no tool message ever answers those requests.             *)
(***************************************************************************)
C24_PresentationOnlyEndsTurn ==
    /\ [][(/\ ChatStep
           /\ LastMessage(messages').tool_calls # <<>>
           /\ non_copilotkit_calls(LastMessage(messages').tool_calls, actions) = <<>>) =>
              /\ IsPrefix(messages, messages')
              /\ pc' = "__end__"
              /\ UNCHANGED <<pending_tool_calls, awaiting_approval, tasks>>]_vars
    /\ [](\A i \in 1..Len(messages) :
            (/\ messages[i].tool_calls # <<>>
             /\ non_copilotkit_calls(messages[i].tool_calls, actions) = <<>>) =>
                \A k \in 1..Len(messages[i].tool_calls) :
                    ResultsFor(messages[i].tool_calls[k].id) = {})

\* a turn has ended on a response with two requests, both CopilotKit actions
C24_Witness ==
    /\ pc = "__end__"
    /\ messages # <<>>
    /\ Len(LastMessage(messages).tool_calls) = 2
    /\ non_copilotkit_calls(LastMessage(messages).tool_calls, actions) = <<>>

(***************************************************************************)
(* C25: a CHAT step that returns, to tool_node or to the end, appends      *)
(* exactly one message, the model's response, and changes no other field   *)
(* of the conversation: pending_tool_calls, awaiting_approval, language.   *)
(***************************************************************************)
C25_ChatWritesMessagesOnly ==
    [][(pc = "chat_node" /\ pc' \in {"tool_node", "__end__"}) =>
          /\ Len(messages') = Len(messages) + 1
          /\ IsPrefix(messages, messages')
          /\ LastMessage(messages').type = "ai"
          /\ UNCHANGED <<pending_tool_calls, awaiting_approval, language>>]_vars

\* chat_node has left for tool_node with requests that are no CopilotKit
\* actions while an older approval is outstanding
C25_Witness ==
    /\ pc = "tool_node"
    /\ non_copilotkit_calls(LastMessage(messages).tool_calls, actions) # <<>>
    /\ pending_tool_calls # <<>>
    /\ awaiting_approval

(***************************************************************************)
(* C26: the approval check on an empty transcript, or on a last message    *)
(* without a content attribute, ends the turn with awaiting_approval       *)
(* false, appends no message, starts no tool and keeps the pending queue.  *)
(***************************************************************************)
C26_NoReplyEndsTurn ==
    [][(/\ pc = "check_approval_node"
        /\ IF messages = <<>> THEN TRUE ELSE ~HasContent(LastMessage(messages))) =>
          /\ pc' = "__end__"
          /\ awaiting_approval' = FALSE
          /\ UNCHANGED <<messages, pending_tool_calls, tasks>>]_vars

\* the check has run on an empty transcript with a queue outstanding
C26_Witness ==
    /\ messages = <<>>
    /\ pc = "__end__"
    /\ pending_tool_calls # <<>>
    /\ ~awaiting_approval

(***************************************************************************)
(* C23: for every query and every limit, 0 and negative ones included,     *)
(* search_companies_db returns at most limit companies (none for a limit   *)
(* below 1), each matching the                                             *)
(* query by name (case-insensitive) or by ticker (query upper-cased), in   *)
(* catalogue order, and leaves out a matching company only when the limit  *)
(* is reached.                                                             *)
(***************************************************************************)
C23_SearchWithinLimit ==
    (pc = "__end__" /\ request # <<>>) =>
        LET query == request.arguments.query
            limit == request.arguments.limit
            matching == SelectSeq(mock_results, LAMBDA company : query_matches(query, company))
        IN /\ Len(reply) <= (IF limit > 0 THEN limit ELSE 0)
           /\ \A k \in 1..Len(reply) : query_matches(query, reply[k])
           /\ \A k \in 1..Len(reply) : \A n \in 1..Len(reply) :
                k < n => reply[k].id < reply[n].id
           /\ Len(reply) < limit => reply = matching

(***************************************************************************)
(* The database server.                                                    *)
(***************************************************************************)
\* the queries a step sends to the database
Sent == SubSeq(db_log', Len(db_log) + 1, Len(db_log'))

compact_error_prefix ==
    <<"{","\"","e","r","r","o","r","\"",":"," ","\"">>

compact_error_suffix ==
    <<"\"","}">>

\* a JSON document {"error": "<message>"}, on one line or indented
IsErrorDocument(text) ==
    \/ IsErrorPayload(text)
    \/ /\ Len(text) >= Len(compact_error_prefix) + Len(compact_error_suffix)
       /\ IsPrefix(compact_error_prefix, text)
       /\ SubSeq(text, Len(text) - Len(compact_error_suffix) + 1, Len(text))
              = compact_error_suffix

KnownTools == {name_search_companies, name_filter_companies, name_get_company_details}

\* the calls the claim names: an unknown tool, a details call with neither key, and
\* arguments that fail validation
IsFailedCall(r) ==
    \/ r.name \notin KnownTools
    \/ /\ r.name = name_get_company_details
       /\ r.arguments.company_id = Absent
       /\ r.arguments.ticker = Absent
    \/ r.name = name_search_companies /\ ~CompanySearchParams(r.arguments).valid
    \/ r.name = name_filter_companies /\ ~CompanyFilterParams(r.arguments).valid

\* C22: call_tool never raises, and an unknown tool name, a get_company_details call
\* with neither company_id nor ticker, and arguments that fail validation each yield
\* a text that is a JSON document {"error": "<message>"}
C22_CallToolNeverRaises ==
    (pc = "idle" /\ request # <<>> /\ reply # <<>> /\ request.method = "call_tool") =>
        /\ reply.kind = "text"
        /\ IsFailedCall(request) => IsErrorDocument(reply.text)

\* the filters of filter_companies: the argument, and the condition and the parameter
\* a filter that is given introduces
Filters ==
    {[argument |-> "industry", column |-> "industry", operator |-> "ILIKE"],
     [argument |-> "sector", column |-> "sector", operator |-> "ILIKE"],
     [argument |-> "min_market_cap", column |-> "market_cap", operator |-> ">="],
     [argument |-> "max_market_cap", column |-> "market_cap", operator |-> "<="]}

FilterValue(params, f) ==
    CASE f.argument = "industry" -> params.industry
      [] f.argument = "sector" -> params.sector
      [] f.argument = "min_market_cap" -> params.min_market_cap
      [] OTHER -> params.max_market_cap

FilterParameter(params, f) ==
    IF f.operator = "ILIKE"
    THEN PyStr(<<"%">> \o FilterValue(params, f)[2] \o <<"%">>)
    ELSE FilterValue(params, f)

\* a well-formed query for the validated parameters params
FilterQueryFor(params, query) ==
    LET conditions == IF query.where_clause[1] = " AND " THEN query.where_clause[2]
                      ELSE <<>>
        n == Len(query.params)
        introduced(f, k) == /\ conditions[k].column = f.column
                            /\ conditions[k].operator = f.operator
    IN /\ query.sql = "filter_companies"
       /\ n = Len(conditions) + 1
       /\ \A k \in 1..Len(conditions) : conditions[k].placeholder = k
       /\ query.limit_placeholder = n
       /\ query.params[n] = params.limit
       /\ \A k \in 1..Len(conditions) :
            \E f \in Filters :
                /\ introduced(f, k)
                /\ query.params[k] = FilterParameter(params, f)
       /\ \A f \in Filters :
            Cardinality({k \in 1..Len(conditions) : introduced(f, k)})
                = (IF truthy(FilterValue(params, f)) THEN 1 ELSE 0)
       /\ (\A f \in Filters : ~truthy(FilterValue(params, f)))
              => query.where_clause = <<"1=1">>
       /\ query.where_clause[1] = " AND " => conditions # <<>>

\* a filter_companies call with valid arguments, handled with a connection pool
FilterStep ==
    /\ pc = "call_tool"
    /\ pc' = "idle"
    /\ request.name = name_filter_companies
    /\ CompanyFilterParams(request.arguments).valid
    /\ db_pool # "None"

\* C27: for every combination of present and absent filters, filter_companies sends
\* one query whose placeholders are numbered 1..n without gaps, n the number of
\* parameters, each placeholder bound to the parameter of the filter that introduced
\* it, the limit last; an absent or falsy filter adds neither condition nor
\* parameter, and with no filter the condition is the always-true clause
C27_FilterPlaceholdersNumbered ==
    [][FilterStep =>
         /\ Len(Sent) = 1
         /\ FilterQueryFor(CompanyFilterParams(request.arguments), Sent[1])]_vars

\* a query for sector and max_market_cap was sent, industry absent and
\* min_market_cap 0
C27_Witness ==
    /\ pc = "idle"
    /\ request # <<>>
    /\ request.method = "call_tool"
    /\ request.name = name_filter_companies
    /\ request.arguments.industry = Absent
    /\ request.arguments.sector = PyStr(sector_Technology)
    /\ request.arguments.min_market_cap = PyInt(0)
    /\ request.arguments.max_market_cap = PyInt(9)
    /\ db_log # <<>>
    /\ db_log[Len(db_log)].sql = "filter_companies"
    /\ Len(db_log[Len(db_log)].params) = 3

\* a get_company_details call
DetailsStep ==
    /\ pc = "call_tool"
    /\ pc' = "idle"
    /\ request.name = name_get_company_details

\* a handler runs while no connection pool has been initialised
NoPoolStep ==
    /\ pc \in {"call_tool", "read_resource"}
    /\ pc' = "idle"
    /\ db_pool = "None"

\* the text of the empty value of the operation a request asks for, where the
\* request reaches a query operation
EmptyTexts(r) ==
    IF r.method = "read_resource"
    THEN IF r.name = uri_companies
         THEN {text_resource_head \o <<"0">> \o text_resource_tail}
         ELSE {}
    ELSE IF r.name = name_search_companies
    THEN IF CompanySearchParams(r.arguments).valid THEN {text_no_rows} ELSE {}
    ELSE IF r.name = name_filter_companies
    THEN IF CompanyFilterParams(r.arguments).valid THEN {text_no_rows} ELSE {}
    ELSE IF r.name = name_get_company_details
    THEN IF truthy(r.arguments.company_id) \/ truthy(r.arguments.ticker)
         THEN {text_no_row} ELSE {}
    ELSE {}

\* C28: get_company_details looks up by company_id whenever company_id is truthy,
\* by the upper-cased ticker only when company_id is absent or falsy and a ticker is
\* given, and not at all when neither is given; with no connection pool every query
\* operation returns its empty value and sends the database nothing
C28_LookupAndNoPool ==
    [][/\ DetailsStep =>
            LET company_id == request.arguments.company_id
                ticker == request.arguments.ticker
            IN /\ (truthy(company_id) /\ db_pool # "None") =>
                      /\ Len(Sent) = 1
                      /\ Sent[1].sql = "get_company_by_id"
                      /\ Sent[1].params = <<company_id>>
               /\ (~truthy(company_id) /\ truthy(ticker) /\ db_pool # "None") =>
                      /\ Len(Sent) = 1
                      /\ Sent[1].sql = "get_company_by_ticker"
                      /\ Sent[1].params = <<PyStr(upper(ticker[2]))>>
               /\ (~truthy(company_id) /\ ~truthy(ticker)) => Sent = <<>>
       /\ NoPoolStep =>
            /\ Sent = <<>>
            /\ \A text \in EmptyTexts(request) : reply'.kind = "text" /\ reply'.text = text
      ]_vars

\* a company was looked up by id although a ticker was given too
C28_Witness ==
    /\ pc = "idle"
    /\ request # <<>>
    /\ request.method = "call_tool"
    /\ request.name = name_get_company_details
    /\ truthy(request.arguments.company_id)
    /\ truthy(request.arguments.ticker)
    /\ db_log # <<>>
    /\ db_log[Len(db_log)].sql = "get_company_by_id"

(***************************************************************************)
(* Two conversations.                                                      *)
(***************************************************************************)
\* the transcript, the queue and the flag of conversation t
ConversationOf(t) ==
    IF t = conversations.thread_id
    THEN [messages |-> messages, pending_tool_calls |-> pending_tool_calls,
          awaiting_approval |-> awaiting_approval]
    ELSE [messages |-> conversations.checkpoints[t].messages,
          pending_tool_calls |-> conversations.checkpoints[t].pending_tool_calls,
          awaiting_approval |-> conversations.checkpoints[t].awaiting_approval]

=============================================================================
